---- MODULE Spec2Model ----
(***************************************************************************)
(* Steam-Offers-API: the offer scan of app/games/controller.js.            *)
(*                                                                         *)
(* JavaScript runs one callback at a time, so every action below is the    *)
(* code that runs between two awaits: a request arriving (main, up to the  *)
(* await of getDB), getDB resolving, one fetch settling, one backoff timer *)
(* firing, Promise.all resolving (with the whole continuation of           *)
(* filterGames up to its next await) and insertGameDetails resolving.      *)
(***************************************************************************)
EXTENDS Integers, Sequences, FiniteSets, TLC

\* ---------------------------------------------------------------- constants
Quota == 10
Limit == 9
Retries == 3
InitialDelay == 2000

\* ------------------------------------------------------------------- bounds
\* page requests served in one behaviour
MaxRequests == 3
\* the same when no request fails
MaxVisits == 4
\* page numbers a request may carry (0 stands for a missing or non-numeric one)
MaxPage == 2
\* failed fetch attempts, failed getDB calls and rejected inserts injected in
\* one behaviour of the whole program
MaxFaults == 1
\* the same when getAllFilteredGames is driven directly: enough to exhaust a
\* request
MaxScanFaults == 3
\* urls handed to batchFetch, and its batchSize, when it is driven directly
MaxUrls == 3
\* the longest catalog of the whole-program specification
MaxCatalog == 19
\* catalog length, start index and window size when getAllFilteredGames is
\* driven directly
MaxList == 11
MaxWindow == 3

\* ------------------------------------------------------------ JSON payloads
\* What response.json() can resolve to for one appdetails request.  shape:
\*   "null"     the JSON value null
\*   "empty"    an object with no key, {}
\*   "envelope" { "<appid>": {success, data: {price_overview: {discount_percent}}} }
\* data and price say whether data and data.price_overview are present.
Json(shape, appid, success, data, price, discount) ==
    [shape |-> shape, appid |-> appid, success |-> success, data |-> data,
     price |-> price, discount |-> discount]

null == Json("null", 0, FALSE, FALSE, FALSE, 0)

EmptyObject == Json("empty", 0, FALSE, FALSE, FALSE, 0)

Envelope(appid, success, data, price, discount) ==
    Json("envelope", appid, success, data, price, discount)

\* The bodies the details endpoint may answer with for appid a, by kind.
Body(kind, a) ==
    CASE kind = "null"    -> null
      [] kind = "empty"   -> EmptyObject
      [] kind = "fail"    -> Envelope(a, FALSE, FALSE, FALSE, 0)
      [] kind = "nodata"  -> Envelope(a, TRUE, FALSE, FALSE, 0)
      [] kind = "noprice" -> Envelope(a, TRUE, TRUE, FALSE, 0)
      [] kind = "free"    -> Envelope(a, TRUE, TRUE, TRUE, 0)
      [] kind = "off50"   -> Envelope(a, TRUE, TRUE, TRUE, 50)
      [] kind = "off100"  -> Envelope(a, TRUE, TRUE, TRUE, 100)
      [] kind = "off150"  -> Envelope(a, TRUE, TRUE, TRUE, 150)

\* The details endpoint as the whole program sees it: what each appid of a
\* catalog of n entries answers, a pattern of kinds repeated along the catalog.
Patterns ==
    {<<"off50">>,
     <<"off150", "free", "off50", "fail", "off100", "null", "nodata",
       "noprice", "off50", "empty">>}

World(pattern, n) ==
    [a \in 1..n |-> Body(pattern[((a - 1) % Len(pattern)) + 1], a)]

\* The catalogs of the whole program: empty, shorter than a window, longer
\* than two windows.
CatalogLengths == {0, 3, MaxCatalog}

\* The bodies batchFetch is driven with: it only tells null from the rest.
BatchKinds == {"null", "empty", "off50"}

\* ------------------------------------------------------------ pure helpers
Min(a, b) == IF a < b THEN a ELSE b

\* Array.prototype.slice(from, to) on a sequence, 0-based, to exclusive.
Slice(s, from, to) ==
    IF from >= Min(to, Len(s)) THEN << >>
    ELSE SubSeq(s, from + 1, Min(to, Len(s)))

\* Boolean(v) for the values a fetch task resolves to.
Truthy(v) == v.shape # "null"

\* batchResults.filter(Boolean)
FilterBoolean(vs) == SelectSeq(vs, Truthy)

\* Object.values(game)[0] is undefined for {}: reading .success of it throws.
Throws(game) == game.shape = "empty"

\* The filter callback of filterGames and of getGamesWithOffers.
HasOfferOrFree(game) ==
    /\ game.shape = "envelope"
    /\ game.success
    /\ game.data
    /\ game.price
    /\ game.discount >= 0

HasOffer(game) ==
    /\ game.shape = "envelope"
    /\ game.success
    /\ game.data
    /\ game.price
    /\ game.discount > 0

\* The .map of getGamesWithOffers: the fields of the rendered item the model
\* keeps.
Project(game) == [appid |-> game.appid, discount |-> game.discount]

\* getGamesWithOffers applied to what filterGames returned.
ProjectAll(found) ==
    LET kept == SelectSeq(found, HasOffer)
    IN  [k \in 1..Len(kept) |-> Project(kept[k])]

\* cachedPagesList.find(item => item.pageNumber === page): the first entry.
FindLast(list, page) ==
    LET hits == {k \in 1..Len(list) : list[k].pageNumber = page}
    IN  list[CHOOSE k \in hits : \A j \in hits : j <= k]

Find(list, page) ==
    LET hits == {k \in 1..Len(list) : list[k].pageNumber = page}
    IN  list[CHOOSE k \in hits : \A j \in hits : k <= j]

\* parseInt(req.query.page) || 1
PageOf(query) == IF query = 0 THEN 1 ELSE query

\* ------------------------------------------------------------------- state
VARIABLES
    GlobalCurrentIndex,  \* controller.js:4
    cachedPages,         \* controller.js:5
    gamesList,           \* the catalog getDB resolves to: a sequence of appids
    steam,               \* appid -> the body the details endpoint answers with
    faults,              \* failures the environment may still inject
    pass,                \* request number -> the state of its call chain
    nreq                 \* requests that have arrived

vars == <<GlobalCurrentIndex, cachedPages, gamesList, steam, faults, pass, nreq>>

\* One fetch task of batch.map (controller.js:101-129): the closure's retries
\* and delay, where it is suspended (st) and what it resolved to.  ok tells a
\* parsed response from the null of an exhausted task; attempts counts the
\* fetch(url) calls made and waits lists the timers that have fired.
NewTask(url) ==
    [url |-> url, st |-> "new", retries |-> Retries, delay |-> InitialDelay,
     ok |-> FALSE, value |-> null, attempts |-> 0, waits |-> << >>]

\* The call chain of one request.  before, overlap, windows, fetched, threw
\* and committed record what happened (the offset when the request arrived,
\* the requests whose filterGames was running then, the currentIndex of every
\* window handed to batchFetch, every result batchFetch returned, a TypeError
\* of the filter callback, the write of line 60).
Idle ==
    [pc |-> "idle", entry |-> "none", page |-> 0, limit |-> 0, batchSize |-> 0,
     startIndex |-> 0, currentIndex |-> 0, before |-> 0, overlap |-> {},
     gamesWithOffers |-> << >>, tasks |-> << >>, i |-> 0, results |-> << >>,
     windows |-> << >>, fetched |-> << >>, threw |-> FALSE, committed |-> FALSE,
     games |-> << >>, sink |-> "none", rendered |-> FALSE]

Requests == 1..MaxVisits

InFlight == {r \in Requests : pass[r].pc \notin {"idle", "done"}}

\* The tasks of the chunk urls.slice(i, i + batchSize).
Chunk(p) == {k \in 1..Len(p.tasks) : k > p.i /\ k <= p.i + p.batchSize}

\* batch.map(async (url) => ...): every task of the chunk runs to its first
\* await, the fetch(url) of its first attempt.
StartChunkAll(p) ==
    [p EXCEPT !.tasks = [k \in 1..Len(p.tasks) |->
        IF p.tasks[k].st = "new"
        THEN [p.tasks[k] EXCEPT !.st = "fetch", !.attempts = 1]
        ELSE p.tasks[k]]]

StartChunk(p) ==
    [p EXCEPT !.tasks = [k \in 1..Len(p.tasks) |->
        IF k \in Chunk(p)
        THEN [p.tasks[k] EXCEPT !.st = "fetch", !.attempts = 1]
        ELSE p.tasks[k]]]

\* batchFetch(urls, batchSize) up to its first await.
BatchFetchCall(p, urls, batchSize) ==
    StartChunk([p EXCEPT !.pc = "fetch",
                         !.tasks = [k \in 1..Len(urls) |-> NewTask(urls[k])],
                         !.i = 0, !.results = << >>, !.batchSize = batchSize])

\* response.ok and response.json() resolved: the task returns the body.
FetchOk(t) == [t EXCEPT !.st = "done", !.ok = TRUE, !.value = steam[t.url]]

\* The catch block: a rejected fetch, a non-OK status (the throw of line 114)
\* and a body that does not parse all land here.
FetchFailsOnceMore(t) ==
    LET left == t.retries - 1
    IN  IF left >= 0
        THEN [t EXCEPT !.retries = left, !.st = "sleep"]
        ELSE [t EXCEPT !.retries = left, !.st = "done", !.value = null]

FetchFails(t) ==
    LET left == t.retries - 1
    IN  IF left > 0
        THEN [t EXCEPT !.retries = left, !.st = "sleep"]
        ELSE [t EXCEPT !.retries = left, !.st = "done", !.value = null]

\* The setTimeout of line 121 fires: delay doubles and the loop fetches again.
TimerFires(t) ==
    [t EXCEPT !.waits = Append(@, t.delay), !.delay = t.delay * 2,
              !.st = "fetch", !.attempts = @ + 1]

\* What Promise.all resolves to for the chunk: the tasks' values in order.
ChunkValues(p) ==
    LET lo == p.i + 1
        hi == Min(p.i + p.batchSize, Len(p.tasks))
    IN  [k \in 1..(hi - lo + 1) |-> p.tasks[lo + k - 1].value]

\* The while test of filterGames.
WhileTestInclusive(p) ==
    /\ Len(p.gamesWithOffers) < Quota
    /\ p.currentIndex <= Len(gamesList)

WhileTestQuotaInclusive(p) ==
    /\ Len(p.gamesWithOffers) <= Quota
    /\ p.currentIndex < Len(gamesList)

WhileTest(p) ==
    /\ Len(p.gamesWithOffers) < Quota
    /\ p.currentIndex < Len(gamesList)

\* filterGames returns found; getGamesWithOffers filters and maps it and
\* getAllFilteredGames awaits insertGameDetails.
Return(p, found) ==
    [p EXCEPT !.pc = "insert", !.games = ProjectAll(found), !.tasks = << >>]

\* filterGames from its while test to its next await or its return.
LoopCommitsEachWindow(r, p) ==
    IF WhileTest(p)
    THEN /\ pass' = [pass EXCEPT ![r] =
                BatchFetchCall([p EXCEPT !.windows = Append(@, p.currentIndex)],
                    Slice(gamesList, p.currentIndex, p.currentIndex + p.limit),
                    p.limit)]
         /\ GlobalCurrentIndex' = p.currentIndex
    ELSE /\ GlobalCurrentIndex' = p.currentIndex
         /\ pass' = [pass EXCEPT ![r] =
                Return([p EXCEPT !.committed = TRUE],
                       Slice(p.gamesWithOffers, 0, p.limit))]

Loop(r, p) ==
    IF WhileTest(p)
    THEN /\ pass' = [pass EXCEPT ![r] =
                BatchFetchCall([p EXCEPT !.windows = Append(@, p.currentIndex)],
                    Slice(gamesList, p.currentIndex, p.currentIndex + p.limit),
                    p.limit)]
         /\ UNCHANGED GlobalCurrentIndex
    ELSE /\ GlobalCurrentIndex' = p.currentIndex
         /\ pass' = [pass EXCEPT ![r] =
                Return([p EXCEPT !.committed = TRUE],
                       Slice(p.gamesWithOffers, 0, p.limit))]

\* currentIndex += limit, line 58.
AdvanceByOne(currentIndex, limit) == currentIndex + 1

Advance(currentIndex, limit) == currentIndex + limit

\* filterGames after batchFetch returned batchResults: the filter callback
\* throws on {} (the rejection is caught at line 194, which returns []),
\* otherwise the matches are pushed and the loop goes on.
FilteredSharedIndex(r, p, batchResults) ==
    LET q == [p EXCEPT !.fetched = @ \o batchResults]
    IN  IF \E k \in 1..Len(batchResults) : Throws(batchResults[k])
        THEN /\ pass' = [pass EXCEPT ![r] = Return([q EXCEPT !.threw = TRUE], << >>)]
             /\ UNCHANGED GlobalCurrentIndex
        ELSE LoopCommitsEachWindow(r, [q EXCEPT
                 !.gamesWithOffers = @ \o SelectSeq(batchResults, HasOffer),
                 !.currentIndex = Advance(GlobalCurrentIndex, p.limit)])

Filtered(r, p, batchResults) ==
    LET q == [p EXCEPT !.fetched = @ \o batchResults]
    IN  IF \E k \in 1..Len(batchResults) : Throws(batchResults[k])
        THEN /\ pass' = [pass EXCEPT ![r] = Return([q EXCEPT !.threw = TRUE], << >>)]
             /\ UNCHANGED GlobalCurrentIndex
        ELSE Loop(r, [q EXCEPT
                 !.gamesWithOffers = @ \o SelectSeq(batchResults, HasOffer),
                 !.currentIndex = Advance(@, p.limit)])

\* ----------------------------------------------------------------- actions
\* cachePages(page), line 231-233.
CachePagesFromZero(page) ==
    Append(cachedPages, [pageNumber |-> page, pageIndex |-> 0])

CachePages(page) ==
    Append(cachedPages, [pageNumber |-> page, pageIndex |-> GlobalCurrentIndex])

\* main down to the await of getDB in filterGames.
Arrive(query) ==
    /\ LET page == PageOf(query)
           cachedPagesList == CachePages(page)
           currentPageData == Find(cachedPagesList, page)
       IN  /\ cachedPages' = cachedPagesList
           /\ pass' = [pass EXCEPT ![nreq + 1] =
                  [Idle EXCEPT !.pc = "getDB", !.entry = "main", !.page = page,
                               !.limit = Limit,
                               !.startIndex = currentPageData.pageIndex,
                               !.before = GlobalCurrentIndex,
                               !.overlap = {x \in Requests :
                                   pass[x].pc \in {"getDB", "fetch"}}]]
    /\ nreq' = nreq + 1
    /\ UNCHANGED <<GlobalCurrentIndex, gamesList, steam, faults>>

\* A request arrives when no other is being served.
main(query) ==
    /\ nreq < MaxRequests
    /\ InFlight = {}
    /\ Arrive(query)

\* getDB resolves: to undefined when initDB failed (part_001:116-118), else
\* to the catalog.
getDB(r, up) ==
    /\ pass[r].pc = "getDB"
    /\ IF up
       THEN /\ Loop(r, [pass[r] EXCEPT !.currentIndex = pass[r].startIndex])
            /\ UNCHANGED faults
       ELSE /\ faults > 0
            /\ faults' = faults - 1
            /\ pass' = [pass EXCEPT ![r] = Return(pass[r], << >>)]
            /\ UNCHANGED GlobalCurrentIndex
    /\ UNCHANGED <<cachedPages, gamesList, steam, nreq>>

\* One fetch of a task settles with a parsed body.
fetchOk(r, k) ==
    /\ pass[r].pc = "fetch"
    /\ k \in 1..Len(pass[r].tasks)
    /\ pass[r].tasks[k].st = "fetch"
    /\ pass' = [pass EXCEPT ![r].tasks[k] = FetchOk(@)]
    /\ UNCHANGED <<GlobalCurrentIndex, cachedPages, gamesList, steam, faults, nreq>>

\* One attempt of a task fails: fetch rejects, the status is not OK (the throw
\* of line 114) or the body does not parse; the catch block treats all alike.
FailureKinds == {"rejected", "status", "parse"}

fetchFails(r, k, why) ==
    /\ why \in FailureKinds
    /\ pass[r].pc = "fetch"
    /\ k \in 1..Len(pass[r].tasks)
    /\ pass[r].tasks[k].st = "fetch"
    /\ faults > 0
    /\ faults' = faults - 1
    /\ pass' = [pass EXCEPT ![r].tasks[k] = FetchFails(@)]
    /\ UNCHANGED <<GlobalCurrentIndex, cachedPages, gamesList, steam, nreq>>

\* The backoff timer of a task fires.
timer(r, k) ==
    /\ pass[r].pc = "fetch"
    /\ k \in 1..Len(pass[r].tasks)
    /\ pass[r].tasks[k].st = "sleep"
    /\ pass' = [pass EXCEPT ![r].tasks[k] = TimerFires(@)]
    /\ UNCHANGED <<GlobalCurrentIndex, cachedPages, gamesList, steam, faults, nreq>>

\* Promise.all of the chunk resolves: line 132, then the next chunk, or the
\* return of batchFetch and the caller's continuation.
promiseAll(r) ==
    /\ pass[r].pc = "fetch"
    /\ \A k \in Chunk(pass[r]) : pass[r].tasks[k].st = "done"
    /\ LET p == [pass[r] EXCEPT !.results = @ \o FilterBoolean(ChunkValues(pass[r])),
                                !.i = @ + pass[r].batchSize]
       IN  IF p.i < Len(p.tasks)
           THEN /\ pass' = [pass EXCEPT ![r] = StartChunk(p)]
                /\ UNCHANGED GlobalCurrentIndex
           ELSE IF p.entry = "batchFetch"
           THEN /\ pass' = [pass EXCEPT ![r] = [p EXCEPT !.pc = "done"]]
                /\ UNCHANGED GlobalCurrentIndex
           ELSE Filtered(r, p, p.results)
    /\ UNCHANGED <<cachedPages, gamesList, steam, faults, nreq>>

\* insertGameDetails resolves (a rejected insertMany is caught and logged at
\* part_001:145-146, and counts among the faults of the behaviour);
\* getAllFilteredGames returns allGames and main renders it.  sink records
\* what the insert did.
insertGameDetailsUncaught(r, outcome) ==
    /\ pass[r].pc = "insert"
    /\ outcome \in {"inserted", "rejected"}
    /\ IF outcome = "rejected"
       THEN /\ faults > 0
            /\ faults' = faults - 1
            /\ pass' = [pass EXCEPT ![r].pc = "done", ![r].rendered = TRUE,
                                    ![r].sink = outcome, ![r].games = << >>]
       ELSE /\ UNCHANGED faults
            /\ pass' = [pass EXCEPT ![r].pc = "done", ![r].rendered = TRUE,
                                    ![r].sink = outcome]
    /\ UNCHANGED <<GlobalCurrentIndex, cachedPages, gamesList, steam, nreq>>

insertGameDetails(r, outcome) ==
    /\ pass[r].pc = "insert"
    /\ outcome \in {"inserted", "rejected"}
    /\ IF outcome = "rejected"
       THEN faults > 0 /\ faults' = faults - 1
       ELSE UNCHANGED faults
    /\ pass' = [pass EXCEPT ![r].pc = "done", ![r].rendered = TRUE,
                            ![r].sink = outcome]
    /\ UNCHANGED <<GlobalCurrentIndex, cachedPages, gamesList, steam, nreq>>

\* ---------------------------------------------------------- specifications
\* The task of a window the network answers next in the whole-program
\* specification: the tasks of a chunk touch nothing but their own closure, so
\* there the responses and timers come in url order; SpecBatch explores every
\* order.  0 when no task is unsettled.
First(p) ==
    LET open == {k \in 1..Len(p.tasks) : p.tasks[k].st \in {"fetch", "sleep"}}
    IN  IF open = {} THEN 0 ELSE CHOOSE k \in open : \A j \in open : k <= j

\* The whole program, one request at a time: requests for pages 1..MaxPage
\* (or none given) against a catalog and an endpoint fixed at start; faults
\* bounds the failed fetches and failed getDB calls of the behaviour.
Init ==
    /\ GlobalCurrentIndex = 0
    /\ cachedPages = << >>
    /\ \E n \in CatalogLengths :
          /\ gamesList = [a \in 1..n |-> a]
          /\ \E pattern \in Patterns : steam = World(pattern, n)
    /\ faults = MaxFaults
    /\ pass = [r \in Requests |-> Idle]
    /\ nreq = 0

Next ==
    \/ \E query \in 0..MaxPage : main(query)
    \/ \E r \in Requests, up \in BOOLEAN : getDB(r, up)
    \/ \E r \in Requests : fetchOk(r, First(pass[r]))
    \/ \E r \in Requests, why \in FailureKinds : fetchFails(r, First(pass[r]), why)
    \/ \E r \in Requests : timer(r, First(pass[r]))
    \/ \E r \in Requests : promiseAll(r)
    \/ \E r \in Requests, outcome \in {"inserted", "rejected"} :
          insertGameDetails(r, outcome)

Spec == Init /\ [][Next]_vars

\* The whole program when nothing fails, one request at a time: MaxVisits
\* requests for pages 1..MaxPage + 1.
InitPages ==
    /\ GlobalCurrentIndex = 0
    /\ cachedPages = << >>
    /\ \E n \in CatalogLengths :
          /\ gamesList = [a \in 1..n |-> a]
          /\ \E pattern \in Patterns : steam = World(pattern, n)
    /\ faults = 0
    /\ pass = [r \in Requests |-> Idle]
    /\ nreq = 0

NextPages ==
    \/ \E query \in 1..(MaxPage + 1) :
          nreq < MaxVisits /\ InFlight = {} /\ Arrive(query)
    \/ \E r \in Requests : getDB(r, TRUE)
    \/ \E r \in Requests : fetchOk(r, First(pass[r]))
    \/ \E r \in Requests : promiseAll(r)
    \/ \E r \in Requests : insertGameDetails(r, "inserted")

SpecPages == InitPages /\ [][NextPages]_vars

\* Two requests served at once, as express does: the second, for page 2,
\* arrives while filterGames of the first is at one of its awaits.  The
\* endpoint answers every window of 9 with 5 offers, so that two windows just
\* reach the quota; the environment may fail as many attempts as exhaust one
\* request.
RacePattern ==
    <<"off50", "free", "off50", "fail", "off50", "nodata", "off50", "noprice",
      "off50">>

InitRace ==
    /\ GlobalCurrentIndex = 0
    /\ cachedPages = << >>
    /\ gamesList = [a \in 1..MaxCatalog |-> a]
    /\ steam = World(RacePattern, MaxCatalog)
    /\ faults = Retries
    /\ pass = [r \in Requests |-> Idle]
    /\ nreq = 0

NextRace ==
    \/ /\ \/ nreq = 0
          \/ nreq = 1 /\ pass[1].pc \in {"getDB", "fetch"}
       /\ Arrive(nreq + 1)
    \/ \E r \in Requests, up \in BOOLEAN : getDB(r, up)
    \/ \E r \in Requests : fetchOk(r, First(pass[r]))
    \/ \E r \in Requests, why \in FailureKinds : fetchFails(r, First(pass[r]), why)
    \/ \E r \in Requests : timer(r, First(pass[r]))
    \/ \E r \in Requests : promiseAll(r)
    \/ \E r \in Requests : insertGameDetails(r, "inserted")

SpecRace == InitRace /\ [][NextRace]_vars

\* batchFetch(urls, batchSize) driven directly: 1..MaxUrls urls, any batch
\* size from 1 to MaxUrls, any body for each url and any fetch failing.
InitBatch ==
    /\ GlobalCurrentIndex = 0
    /\ cachedPages = << >>
    /\ \E n \in 1..MaxUrls :
          /\ gamesList = [a \in 1..n |-> a]
          /\ \E kinds \in [1..n -> BatchKinds] :
                steam = [a \in 1..n |-> Body(kinds[a], a)]
          /\ faults = Retries * n
          /\ \E batchSize \in 1..MaxUrls :
                pass = [r \in Requests |->
                    IF r = 1
                    THEN BatchFetchCall([Idle EXCEPT !.entry = "batchFetch"],
                                        gamesList, batchSize)
                    ELSE Idle]
    /\ nreq = 1

NextBatch ==
    \/ \E k \in 1..MaxUrls : fetchOk(1, k)
    \/ \E k \in 1..MaxUrls, why \in FailureKinds : fetchFails(1, k, why)
    \/ \E k \in 1..MaxUrls : timer(1, k)
    \/ promiseAll(1)

SpecBatch == InitBatch /\ [][NextBatch]_vars

\* getAllFilteredGames(currentStartIndex, limit) driven directly, up to its
\* await of getDB: any start index and any window size from 1 to MaxWindow on
\* a catalog of up to MaxList entries, the responses of a window in any order.
InitScan ==
    /\ GlobalCurrentIndex = 0
    /\ cachedPages = << >>
    /\ \E n \in 0..MaxList :
          /\ gamesList = [a \in 1..n |-> a]
          /\ \E pattern \in Patterns : steam = World(pattern, n)
    /\ faults = MaxScanFaults
    /\ \E start \in 0..(MaxList + 1), limit \in 1..MaxWindow :
          pass = [r \in Requests |->
              IF r = 1
              THEN [Idle EXCEPT !.pc = "getDB", !.entry = "getAllFilteredGames",
                                !.limit = limit, !.startIndex = start]
              ELSE Idle]
    /\ nreq = 1

NextScan ==
    \/ \E up \in BOOLEAN : getDB(1, up)
    \/ \E k \in 1..MaxWindow : fetchOk(1, k)
    \/ \E k \in 1..MaxWindow, why \in FailureKinds : fetchFails(1, k, why)
    \/ \E k \in 1..MaxWindow : timer(1, k)
    \/ promiseAll(1)
    \/ \E outcome \in {"inserted", "rejected"} : insertGameDetails(1, outcome)

SpecScan == InitScan /\ [][NextScan]_vars

\* The passes main can start, with the scheduling of the event loop.  main
\* hands filterGames an offset that is 0 or an earlier pass's final index,
\* which lies less than a window past the catalog's end; the catalog is
\* empty, of 2 entries or MaxList long and the window 1 or MaxWindow wide.  A settled promise has its
\* continuation run, a timer fires, and every fetch attempt, getDB call and
\* insert is answered at some time, so a pass that can take a step takes one.
InitPass ==
    /\ InitScan
    /\ Len(gamesList) \in {0, 2, MaxList}
    /\ pass[1].startIndex \in {0, 2, MaxList + 1}
    /\ pass[1].limit \in {1, MaxWindow}
    /\ \/ pass[1].startIndex = 0
       \/ pass[1].startIndex < Len(gamesList) + pass[1].limit

SpecPass == InitPass /\ [][NextScan]_vars /\ WF_vars(NextScan)

\* ------------------------------------------------------------------ claims
Started == {r \in Requests : pass[r].pc # "idle"}

Finished == {r \in Requests : pass[r].pc = "done"}

\* C1: the global scan offset never rewinds: no step of the program, for any
\* sequence of page requests, lowers GlobalCurrentIndex.
C1_OffsetNeverRewinds ==
    [][GlobalCurrentIndex' >= GlobalCurrentIndex]_vars

\* The passes of page requests that have returned from filterGames.
Returned ==
    {r \in Started : /\ pass[r].entry \in {"main", "getAllFilteredGames"}
                     /\ pass[r].pc \in {"insert", "done"}}

\* C2: every scan pass returns at most limit (9) items and at least
\* min(f, 9), f being the number of qualifying items it accumulated.
C2_ReturnBounds ==
    \A r \in Returned :
        /\ Len(pass[r].games) <= Limit
        /\ Len(pass[r].games) >= Min(Len(pass[r].gamesWithOffers), Limit)

RECURSIVE Pow2(_)
Pow2(n) == IF n <= 0 THEN 1 ELSE 2 * Pow2(n - 1)

RECURSIVE Sum(_)
Sum(s) == IF s = << >> THEN 0 ELSE Head(s) + Sum(Tail(s))

Tasks(r) == {pass[r].tasks[k] : k \in 1..Len(pass[r].tasks)}

\* C3: a request gets one task and at most 3 attempts; the delay between
\* failed attempt k and attempt k+1 is 2000 * 2^(k-1) ms, none follows the
\* third failure, and a request that fails twice and then succeeds returns
\* its payload after 6000 ms of backoff.
C3_RetryAndBackoff ==
    \A r \in Started :
        /\ pass[r].pc = "fetch" => Len(pass[r].tasks) = Len(gamesList)
        /\ \A t \in Tasks(r) :
            /\ t.attempts <= 3
            /\ \A k \in 1..Len(t.waits) : t.waits[k] = 2000 * Pow2(k - 1)
            /\ t.st \in {"fetch", "done"} => Len(t.waits) = t.attempts - 1
            /\ t.st = "sleep" =>
                  /\ Len(t.waits) = t.attempts - 1
                  /\ t.attempts < 3
                  /\ t.delay = 2000 * Pow2(t.attempts - 1)
            /\ (t.st = "done" /\ ~t.ok) => (t.attempts = 3 /\ t.waits = <<2000, 4000>>)
            /\ (t.st = "done" /\ t.ok /\ t.attempts = 3) =>
                  (t.value = steam[t.url] /\ Sum(t.waits) = 6000)

\* C3's case: in one batch a request has failed twice and then succeeded, and
\* another has failed all three attempts.
C3_Witness ==
    \E r \in Started : \E t, u \in Tasks(r) :
        /\ t.st = "done" /\ t.ok /\ t.attempts = 3
        /\ u.st = "done" /\ ~u.ok /\ u.retries = 0

\* The chunk of batchFetch's loop that task k belongs to.
ChunkOf(r, k) == (k - 1) \div pass[r].batchSize

Present(v, s) == \E j \in 1..Len(s) : s[j] = v

\* C4: a request that fails all 3 attempts leaves no entry in batchFetch's
\* output, and every request of its chunk that succeeded is in the output.
C4_ExhaustedDropsOnlyItself ==
    \A r \in Finished :
        LET ts == pass[r].tasks
            succeeded == {k \in 1..Len(ts) : ts[k].ok}
        IN  pass[r].entry = "batchFetch" =>
              /\ Len(pass[r].results) <= Cardinality(succeeded)
              /\ \A k \in 1..Len(ts) : ~ts[k].ok =>
                    \A j \in succeeded : ChunkOf(r, j) = ChunkOf(r, k) =>
                        /\ Present(ts[j].value, pass[r].results)
                        /\ Len(pass[r].results) = Cardinality(succeeded)

\* What the claims call a qualifying result, spelled out on the payload.
Qualifies(game) ==
    /\ game.shape = "envelope"
    /\ game.success = TRUE
    /\ game.data /\ game.price
    /\ 0 < game.discount

Items(s) == {s[k] : k \in 1..Len(s)}

\* C5 as claimed: every item a scan pass returns has its discount in (0, 100].
C5_DiscountInRange ==
    \A r \in Returned : \A item \in Items(pass[r].games) :
        0 < item.discount /\ item.discount <= 100

\* C5 as amended: a fetched result is accepted if and only if success is
\* true, price data is present and the discount is above 0, with no upper
\* bound; every item a scan pass returns has a discount above 0.
C5_DiscountPositive ==
    \A r \in Started : pass[r].entry = "main" =>
        /\ \A game \in Items(pass[r].gamesWithOffers) : Qualifies(game)
        /\ ~pass[r].threw =>
              pass[r].gamesWithOffers = SelectSeq(pass[r].fetched, Qualifies)
        /\ \A item \in Items(pass[r].games) : item.discount > 0

\* C5's case: a pass has returned an item whose discount is above 100, and it
\* fetched a free game that it did not accumulate.
C5_Witness ==
    \E r \in Returned :
        /\ \E item \in Items(pass[r].games) : item.discount > 100
        /\ \E game \in Items(pass[r].fetched) : game.price /\ game.discount = 0

\* C6: a malformed payload that was fetched is only filtered out: the pass
\* raises no error, writes the global scan offset and returns the qualifying
\* items of the other entries.
C6_MalformedOnlyFiltered ==
    \A r \in Returned :
        (\E game \in Items(pass[r].fetched) :
             game.shape = "empty" \/ (game.shape = "envelope" /\ ~game.data)) =>
            /\ ~pass[r].threw
            /\ pass[r].committed
            /\ Len(pass[r].games) =
                  Min(Len(SelectSeq(pass[r].fetched, Qualifies)), Limit)

\* The first entry of cachedPages recorded for a page.
FirstEntry(page) ==
    LET k == CHOOSE k \in 1..Len(cachedPages) :
                 /\ cachedPages[k].pageNumber = page
                 /\ \A j \in 1..(k - 1) : cachedPages[j].pageNumber # page
    IN  cachedPages[k]

\* C7: a scan of page p starts from the offset of the first entry recorded
\* for p, whatever was appended since and whatever the global offset has
\* become; two scans of the same page use the same start offset.
C7_SameStartForSamePage ==
    /\ \A r \in Started : pass[r].entry = "main" =>
          pass[r].startIndex = FirstEntry(pass[r].page).pageIndex
    /\ \A r, q \in Started :
          pass[r].page = pass[q].page => pass[r].startIndex = pass[q].startIndex

\* C7's case: page p was scanned, another page was scanned after it, and p is
\* scanned again when the global offset is no longer p's start offset.
C7_Witness ==
    \E r, q, x \in Finished :
        /\ r < q /\ q < x
        /\ pass[r].page = pass[x].page
        /\ pass[q].page # pass[r].page
        /\ pass[x].before # pass[x].startIndex
        /\ pass[x].committed

\* The passes that ended on the exhausted catalog, below the quota of 10.
Exhausted ==
    {r \in Returned : pass[r].committed /\ Len(pass[r].gamesWithOffers) < Quota}

\* C8 as claimed: a pass that ends on the exhausted catalog, below the quota
\* of 10, leaves the global scan offset at exactly the catalog length.
C8_ExhaustedSetsCatalogLength ==
    \A r \in Exhausted : pass[r].currentIndex = Len(gamesList)

\* C8 as amended: such a pass returns what it accumulated, cut to the window
\* size, and leaves the offset at the first window boundary
\* startIndex + k * limit that is at or past the catalog length.
C8_ExhaustedSetsWindowBoundary ==
    \A r \in Exhausted :
        LET p == pass[r]
        IN  /\ Len(p.games) = Min(Len(p.gamesWithOffers), p.limit)
            /\ \A k \in 1..Len(p.games) :
                  p.games[k].appid = p.gamesWithOffers[k].appid
            /\ p.currentIndex >= Len(gamesList)
            /\ (p.currentIndex - p.startIndex) % p.limit = 0
            /\ p.currentIndex = p.startIndex \/ p.currentIndex - p.limit < Len(gamesList)

\* C8's case: a pass over a catalog whose remaining length is no multiple of
\* the window ended on the exhausted catalog with items accumulated, past the
\* catalog length.
C8_Witness ==
    \E r \in Exhausted :
        /\ pass[r].startIndex > 0
        /\ pass[r].currentIndex > Len(gamesList)
        /\ pass[r].currentIndex >= pass[r].startIndex + 2 * pass[r].limit
        /\ pass[r].games # << >>

\* The values of the tasks that succeeded, in url order.
OkValues(ts) ==
    LET RECURSIVE Go(_)
        Go(k) == IF k > Len(ts) THEN << >>
                 ELSE IF ts[k].ok THEN <<ts[k].value>> \o Go(k + 1)
                 ELSE Go(k + 1)
    IN  Go(1)

\* C9: batchFetch's output is the subsequence of its input made of the
\* requests that succeeded, in input order.
C9_OutputIsSucceededSubsequence ==
    \A r \in Finished : pass[r].entry = "batchFetch" =>
        pass[r].results = OkValues(pass[r].tasks)

\* C10: no request of a later chunk is started before every request of the
\* chunks before it has settled, at most batchSize requests are outstanding,
\* and a request waiting on its backoff does not keep a request of its chunk
\* from having its attempt answered.
C10_ChunkBarrier ==
    \A r \in Started : pass[r].pc = "fetch" =>
        LET ts == pass[r].tasks
            n == Len(ts)
        IN  /\ \A k, j \in 1..n :
                  (ts[k].st # "new" /\ ChunkOf(r, j) < ChunkOf(r, k)) => ts[j].st = "done"
            /\ Cardinality({k \in 1..n : ts[k].st \in {"fetch", "sleep"}})
                  <= pass[r].batchSize
            /\ \A k, j \in 1..n :
                  (ts[j].st = "sleep" /\ ts[k].st = "fetch") => ENABLED fetchOk(r, k)

\* C10's case: a request sleeps on its backoff, another request of its chunk
\* has been answered meanwhile, and a request of the next chunk has not
\* started.
C10_Witness ==
    \E r \in Started : \E j, k, m \in 1..Len(pass[r].tasks) :
        /\ pass[r].pc = "fetch"
        /\ ChunkOf(r, j) = ChunkOf(r, k) /\ ChunkOf(r, m) > ChunkOf(r, j)
        /\ pass[r].tasks[j].st = "sleep"
        /\ pass[r].tasks[k].st = "done" /\ pass[r].tasks[k].ok
        /\ pass[r].tasks[m].st = "new"

\* C11: the ScanCursor entry recorded for a request holds the start offset
\* its scan pass used, for a first request of a page and for a repeated one.
C11_EntryHoldsStartUsed ==
    \A r \in Started : pass[r].entry = "main" =>
        /\ cachedPages[r].pageNumber = pass[r].page
        /\ cachedPages[r].pageIndex = pass[r].startIndex

\* The page requests whose pass found the catalog empty, or unavailable
\* (getDB resolved to undefined: the pass returned without a write of the
\* offset and without a throw).
NoData ==
    {r \in Returned :
        /\ pass[r].entry = "main"
        /\ \/ Len(gamesList) = 0
           \/ ~pass[r].committed /\ ~pass[r].threw}

\* C12: on an empty or unavailable catalog the pass returns an empty result
\* and the cursor is not consulted: no ScanCursor entry is appended for that
\* request.
C12_NoDataLeavesCursorAlone ==
    /\ \A r \in NoData : pass[r].games = << >>
    /\ Len(cachedPages) <= Cardinality(Started \ NoData)

\* The ceiling of a / b for b > 0.
CeilDiv(a, b) == (a + b - 1) \div b

\* The passes of filterGames, called through main or directly.
Passes == {r \in Started : pass[r].entry \in {"main", "getAllFilteredGames"}}

\* C13: every scan pass terminates: when every fetch attempt is answered, a
\* pass returns to its trigger, after at most
\* ceil((catalogLength - startOffset) / windowSize) windows and at most 3
\* attempts per request.
C13_PassTerminates ==
    /\ [](\A r \in Passes :
            /\ Len(pass[r].windows) <=
                  CeilDiv(Len(gamesList) - pass[r].startIndex, pass[r].limit)
            /\ \A t \in Tasks(r) : t.attempts <= Retries)
    /\ (InFlight # {}) ~> (InFlight = {})

\* C13's case: a pass that started inside the catalog has returned after
\* exactly ceil((catalogLength - startOffset) / windowSize) windows, three of
\* them or more, one of which had a request fail all its attempts.
C13_Witness ==
    \E r \in Passes :
        /\ pass[r].pc = "done"
        /\ pass[r].startIndex > 0
        /\ Len(pass[r].windows) >= 3
        /\ Len(pass[r].windows) =
              CeilDiv(Len(gamesList) - pass[r].startIndex, pass[r].limit)
        /\ faults = 0
        /\ Len(pass[r].fetched) < pass[r].currentIndex - pass[r].startIndex

\* C14: a rejected insert is only logged: the step that ends such a pass
\* hands the trigger the result the scan computed, unchanged, and leaves the
\* global scan offset as the pass set it.
C14_RejectedInsertKeepsResult ==
    [][\A r \in Requests :
          (pass[r].pc = "insert" /\ pass'[r].pc = "done"
              /\ pass'[r].sink = "rejected") =>
            /\ pass'[r].rendered
            /\ pass'[r].games = pass[r].games
            /\ pass'[r].gamesWithOffers = pass[r].gamesWithOffers
            /\ GlobalCurrentIndex' = GlobalCurrentIndex]_vars

\* C14's case: a pass that found offers and moved the global scan offset had
\* its insert rejected, and has rendered.
C14_Witness ==
    \E r \in Returned :
        /\ pass[r].pc = "done" /\ pass[r].sink = "rejected"
        /\ pass[r].games # << >>
        /\ pass[r].committed /\ pass[r].currentIndex > pass[r].startIndex
        /\ GlobalCurrentIndex = pass[r].currentIndex

\* C15: a pass fetches the windows that start at startOffset, startOffset + w,
\* startOffset + 2w, ... in that order, each once; it fetches a window only
\* when the accumulator holds fewer than 10 items and the window's start is
\* below the catalog length, and when it stops without an error one of the
\* two fails and no window is fetched afterwards.
C15_WindowProgression ==
    [][\A r \in Requests :
          LET p == pass[r]
              q == pass'[r]
          IN  /\ q.windows # p.windows =>
                    /\ q.windows =
                          Append(p.windows, q.startIndex + Len(p.windows) * q.limit)
                    /\ q.pc = "fetch"
                    /\ Len(q.gamesWithOffers) < Quota
                    /\ q.windows[Len(q.windows)] < Len(gamesList)
                    /\ [k \in 1..Len(q.tasks) |-> q.tasks[k].url] =
                          Slice(gamesList, q.windows[Len(q.windows)],
                                q.windows[Len(q.windows)] + q.limit)
              /\ (p.pc \in {"getDB", "fetch"} /\ q.pc = "insert" /\ q.committed) =>
                    /\ q.currentIndex = q.startIndex + Len(q.windows) * q.limit
                    /\ \/ Len(q.gamesWithOffers) >= Quota
                       \/ q.currentIndex >= Len(gamesList)
              /\ p.pc \in {"insert", "done"} => q.windows = p.windows]_vars

\* C15's case: a pass has stopped on the quota after three windows or more,
\* with catalog entries left beyond its final index.
C15_Witness ==
    \E r \in Passes :
        /\ pass[r].pc = "done" /\ pass[r].committed
        /\ Len(pass[r].windows) >= 3
        /\ Len(pass[r].gamesWithOffers) >= Quota
        /\ pass[r].currentIndex < Len(gamesList)

\* The requests for a page that no earlier request had asked for.
FirstRequests ==
    {r \in Started :
        /\ pass[r].entry = "main"
        /\ \A j \in 1..(r - 1) : cachedPages[j].pageNumber # pass[r].page}

\* C16: a request for a page that has no earlier ScanCursor entry starts its
\* scan at the value the global scan offset has when the request arrives.
C16_NewPageStartsAtGlobalOffset ==
    \A r \in FirstRequests : pass[r].startIndex = pass[r].before

\* C16's case: after other pages were scanned and the global scan offset has
\* moved, a request for a new page has started there.
C16_Witness ==
    \E r \in FirstRequests :
        /\ r > 1
        /\ pass[r].before > 0
        /\ pass[r].startIndex = pass[r].before
        /\ pass[r].windows # << >>

\* C17: the global scan offset is written only by the step that ends a scan
\* pass, with that pass's final index; a step of a pass that leaves it
\* fetching or filtering (retries and backoff included), a pass that finds
\* the catalog unavailable and a pass that aborts with an error leave the
\* offset unchanged; and the ScanCursor log only grows at its end.
C17_OffsetWrittenAtEndOnly ==
    [][/\ GlobalCurrentIndex' # GlobalCurrentIndex =>
              \E r \in Requests :
                  /\ pass[r].pc \in {"getDB", "fetch"}
                  /\ pass'[r].pc = "insert" /\ pass'[r].committed
                  /\ GlobalCurrentIndex' = pass'[r].currentIndex
       /\ \A r \in Requests :
              /\ (pass'[r] # pass[r] /\ pass'[r].pc = "fetch") =>
                    GlobalCurrentIndex' = GlobalCurrentIndex
              /\ (pass[r].pc \in {"getDB", "fetch"} /\ pass'[r].pc = "insert"
                      /\ ~pass'[r].committed) =>
                    GlobalCurrentIndex' = GlobalCurrentIndex
       /\ Len(cachedPages') >= Len(cachedPages)
       /\ SubSeq(cachedPages', 1, Len(cachedPages)) = cachedPages]_vars

\* C17's case: after an earlier request, a pass has fetched two windows, one
\* of them with a retry, and aborted with an error, and the offset is still
\* what it was when the request arrived.
C17_Witness ==
    \E r \in Returned :
        /\ r > 1 /\ Len(cachedPages) > 1
        /\ pass[r].threw
        /\ Len(pass[r].windows) = 2
        /\ faults = 0
        /\ GlobalCurrentIndex = pass[r].before

\* C18: no qualifying item is lost by a scan pass: every catalog entry between
\* the start offset and the offset the pass wrote that was fetched and passed
\* the filter is in the list the pass returned.
C18_NoQualifyingItemLost ==
    \A r \in Returned : pass[r].committed =>
        \A game \in Items(pass[r].fetched) :
            (/\ Qualifies(game)
             /\ game.appid > pass[r].startIndex
             /\ game.appid <= pass[r].currentIndex) =>
                \E item \in Items(pass[r].games) : item.appid = game.appid

\* C19: one request at a time on an unchanged catalog: a page first requested
\* after the first pass of another page completed starts at or past the final
\* index that pass reached, also when earlier pages were requested again in
\* between.
C19_NewPageStartsPastEarlierPages ==
    \A r, x \in FirstRequests :
        (r < x /\ pass[r].page # pass[x].page /\ pass[r].committed) =>
            pass[x].startIndex >= pass[r].currentIndex

\* The pairs of requests for two pages not requested before, the second
\* arriving while filterGames of the first was running.
Concurrent ==
    {rx \in FirstRequests \X FirstRequests :
        /\ rx[1] \in pass[rx[2]].overlap
        /\ pass[rx[1]].page # pass[rx[2]].page}

\* A pass has left filterGames.
Left(p) == p.pc \in {"insert", "done"}

\* C20 as claimed: two passes that run at once for never-requested pages
\* resolve to the same start offset and scan the same catalog windows, the
\* global scan offset ends as the final index of whichever finishes last,
\* and neither pass's currentIndex and accumulator is touched by the other.
C20_RacingPassesScanTheSame ==
    /\ [](\A rx \in Concurrent :
            LET p == pass[rx[1]]
                q == pass[rx[2]]
            IN  /\ p.startIndex = q.startIndex
                /\ (Left(p) /\ Left(q)) => p.windows = q.windows)
    /\ [][\A r, x \in Started :
            (r # x /\ ~Left(pass[r]) /\ Left(pass'[r]) /\ Left(pass[x])) =>
                GlobalCurrentIndex' = pass'[r].currentIndex]_vars

\* A pass got the catalog from getDB.
Available(p) == p.committed \/ p.threw \/ p.pc = "fetch"

\* C20 as amended: two such passes resolve to the same start offset and fetch
\* the same first window; they fetch the same windows when both got the
\* catalog and the same results; every pass that completes its loop writes
\* its final index to the global scan offset and no other step writes it, so
\* the offset ends as the final index of the pass that completed last; and a
\* pass's currentIndex and accumulator follow from its own results alone, a
\* step of one pass leaving the other pass as it was.
C20_RacingPassesShareStart ==
    /\ [](\A rx \in Concurrent :
            LET p == pass[rx[1]]
                q == pass[rx[2]]
            IN  /\ p.startIndex = q.startIndex
                /\ (p.windows # << >> /\ q.windows # << >>) =>
                      p.windows[1] = q.windows[1]
                /\ (Left(p) /\ Left(q) /\ Available(p) /\ Available(q)
                        /\ p.fetched = q.fetched) => p.windows = q.windows
                /\ \A y \in {rx[1], rx[2]} :
                      (Available(pass[y]) /\ ~pass[y].threw) =>
                        /\ pass[y].gamesWithOffers =
                              SelectSeq(pass[y].fetched, Qualifies)
                        /\ pass[y].currentIndex = pass[y].startIndex
                              + pass[y].limit * (Len(pass[y].windows)
                                  - (IF pass[y].pc = "fetch" THEN 1 ELSE 0)))
    /\ [][/\ \A r \in Started :
                (~Left(pass[r]) /\ Left(pass'[r])) =>
                    IF pass'[r].committed
                    THEN GlobalCurrentIndex' = pass'[r].currentIndex
                    ELSE GlobalCurrentIndex' = GlobalCurrentIndex
          /\ (\A r \in Started : Left(pass[r]) = Left(pass'[r])) =>
                GlobalCurrentIndex' = GlobalCurrentIndex
          /\ \A r, x \in Requests :
                (r # x /\ pass'[r] # pass[r]) => pass'[x] = pass[x]]_vars

\* C20's case: of two racing passes one lost a request to three failed
\* attempts and scanned a window more, and the other completed last: the
\* global scan offset is its final index, below the first one's.
C20_Witness ==
    \E rx \in Concurrent :
        LET p == pass[rx[1]]
            q == pass[rx[2]]
        IN  /\ p.pc = "done" /\ q.pc = "done"
            /\ p.committed /\ q.committed
            /\ Len(p.windows) # Len(q.windows)
            /\ GlobalCurrentIndex = Min(p.currentIndex, q.currentIndex)

====
